---- MODULE Spec2Model ----
(***************************************************************************)
(* A model of the contrastive-learning notebook main_simclr.ipynb:         *)
(* SupConLoss.forward (mask construction, view flattening, self-contrast   *)
(* exclusion), the pretraining loop that assembles the two-view batch,     *)
(* EarlyStopping and TwoCropTransform.                                     *)
(*                                                                         *)
(* Tensors are records [shape, data] with data in row-major order, as a    *)
(* contiguous torch tensor stores them.  2-D masks are sequences of rows.  *)
(* Indices are 1-based here and 0-based in the source.                     *)
(* A division by a zero mask row sum is the float 0/0 and yields NaN       *)
(* without raising.  Temperatures are in hundredths; similarities are kept *)
(* as integer numerators over the temperature.  A finite loss is kept as   *)
(* the bag of its rows' terms (the logits of the positives and the logits  *)
(* summed in the denominator); sums and logarithms are taken as exact, but *)
(* torch.exp rounds to 0 below the float32 range, as the code runs it.     *)
(***************************************************************************)
EXTENDS Integers, Sequences, FiniteSets, TLC

VARIABLES criterion, call, res, pt, early_stopping, two_crop,
          accuracy, metric_monitor, main

vars == <<criterion, call, res, pt, early_stopping, two_crop,
          accuracy, metric_monitor, main>>

\* ------------------------------------------------------------------ bounds
\* batch size, views per sample, size of a trailing feature dimension
MaxN == 3
MaxV == 2
MaxD == 2
\* labels are 0..MaxLabel; explicit masks are m x m for m up to MaxMaskN
MaxLabel == 2
MaxMaskN == 2
\* samples of the dataset, batches per epoch, width of an extractor output
NumSamples == 3
MaxBatches == 2
EmbDim == 2

\* an optional value: absent (None in the source) or given
None == [given |-> FALSE, val |-> <<>>]

Some(x) == [given |-> TRUE, val |-> x]

\* ----------------------------------------------------------- tensor basics
RECURSIVE Prod(_)
Prod(s) == IF s = <<>> THEN 1 ELSE Head(s) * Prod(Tail(s))

\* A tensor whose entries are pairwise distinct: entry k holds k.
Iota(shape) == [shape |-> shape, data |-> [k \in 1..Prod(shape) |-> k]]

NoTensor == [shape |-> <<>>, data |-> <<>>]

Rank(t) == Len(t.shape)

\* t[i, v, :] of a rank-3 tensor (i, v 0-based), as the sequence of its D entries.
Row3(t, i, v) ==
    LET V == t.shape[2]
        D == t.shape[3]
    IN  [d \in 1..D |-> t.data[(i * V + v) * D + d]]

\* t[r, :] of a rank-2 tensor (r 0-based).
Row2(t, r) ==
    LET D == t.shape[2]
    IN  [d \in 1..D |-> t.data[r * D + d]]

RECURSIVE RepeatSeq(_, _)
RepeatSeq(s, k) == IF k <= 0 THEN <<>> ELSE s \o RepeatSeq(s, k - 1)

RECURSIVE SumSeq(_)
SumSeq(s) == IF s = <<>> THEN 0 ELSE Head(s) + SumSeq(Tail(s))

\* ----------------------------------------------------------- torch helpers
\* torch.unbind(t, dim=1) of a rank-3 (N, V, D) tensor: V tensors of shape (N, D).
Unbind1(t) ==
    LET N == t.shape[1]
        V == t.shape[2]
        D == t.shape[3]
    IN  [v \in 1..V |->
            [shape |-> <<N, D>>,
             data  |-> [k \in 1..(N * D) |->
                          t.data[(((k - 1) \div D) * V + (v - 1)) * D
                                 + ((k - 1) % D) + 1]]]]

\* torch.cat(ts, dim=0) of rank-2 tensors with the same second dimension.
RECURSIVE CatData(_)
CatData(ts) == IF ts = <<>> THEN <<>> ELSE Head(ts).data \o CatData(Tail(ts))

Cat0(ts) ==
    [shape |-> <<SumSeq([k \in 1..Len(ts) |-> ts[k].shape[1]]), ts[1].shape[2]>>,
     data  |-> CatData(ts)]

\* torch.eye(n)
Eye(n) == [i \in 1..n |-> [j \in 1..n |-> IF i = j THEN 1 ELSE 0]]

\* torch.ones_like(m)
OnesLike(m) == [p \in 1..Len(m) |-> [q \in 1..Len(m[p]) |-> 1]]

\* mutant of Mul: the left factor is kept as it is
MulLeft(a, b) == a

\* elementwise product of two equally shaped matrices
Mul(a, b) == [p \in 1..Len(a) |-> [q \in 1..Len(a[p]) |-> a[p][q] * b[p][q]]]

\* mutant of Arange: torch.arange(1, n + 1)
ArangeFromOne(n) == [k \in 1..n |-> k]

\* torch.arange(n)
Arange(n) == [k \in 1..n |-> k - 1]

Cols(m) == IF m = <<>> THEN 0 ELSE Len(m[1])

\* torch.scatter(src, 1, index, value) with index an (K, 1) column:
\* row p of the result has `value` at column index[p].
Scatter1(src, index, value) ==
    [p \in 1..Len(src) |->
        [q \in 1..Len(src[p]) |->
            IF p <= Len(index) /\ q = index[p] + 1 THEN value ELSE src[p][q]]]

\* scatter raises when the index has more rows than src or points past a row
ScatterFails(src, index) ==
    \/ Len(index) > Len(src)
    \/ \E p \in 1..Len(index) : index[p] >= Cols(src)

\* two sizes broadcast when they are equal or one of them is 1
Broadcastable(a, b) == a = b \/ a = 1 \/ b = 1

BroadcastSize(a, b) == IF a = 1 THEN b ELSE a

\* ------------------------------------------------- SupConLoss.forward parts
\* mutant of RankTooLow: every rank other than 3 is rejected
RankNotThree(features) == Rank(features) # 3

\* len(features.shape) < 3
RankTooLow(features) == Rank(features) < 3

\* features.view(features.shape[0], features.shape[1], -1) when rank > 3:
\* the data is kept, the trailing dimensions are merged into one whose size
\* is inferred from the number of elements.
View3(features) ==
    IF Rank(features) > 3
    THEN [shape |-> <<features.shape[1], features.shape[2],
                      Len(features.data) \div (features.shape[1] * features.shape[2])>>,
          data  |-> features.data]
    ELSE features

\* mutant of LabelsMismatch: the length check is left out
LabelsNeverMismatch(labels, batch_size) == FALSE

\* labels.shape[0] != batch_size, after labels.contiguous().view(-1, 1)
LabelsMismatch(labels, batch_size) == Len(labels) # batch_size

\* mutant of LabelMask: torch.ge in place of torch.eq
LabelMaskGe(labels) ==
    [i \in 1..Len(labels) |->
        [j \in 1..Len(labels) |-> IF labels[i] >= labels[j] THEN 1 ELSE 0]]

\* torch.eq(labels, labels.T).float()
LabelMask(labels) ==
    [i \in 1..Len(labels) |->
        [j \in 1..Len(labels) |-> IF labels[i] = labels[j] THEN 1 ELSE 0]]

\* mutant of BaseMask: without labels and mask every pair is positive
BaseMaskOnes(batch_size, labels, mask) ==
    IF ~labels.given /\ ~mask.given THEN OnesLike(Eye(batch_size))
    ELSE IF labels.given THEN LabelMask(labels.val)
    ELSE mask.val

\* mutant of BaseMask: an explicit mask is ignored
BaseMaskLabelsOnly(batch_size, labels, mask) ==
    IF labels.given THEN LabelMask(labels.val) ELSE Eye(batch_size)

\* The base mask chosen by the labels/mask branch of forward.
BaseMask(batch_size, labels, mask) ==
    IF ~labels.given /\ ~mask.given THEN Eye(batch_size)
    ELSE IF labels.given THEN LabelMask(labels.val)
    ELSE mask.val

\* mutant of Contrast_feature: features.view(-1, D), sample-major
ContrastFeatureSampleMajor(features) ==
    [shape |-> <<features.shape[1] * features.shape[2], features.shape[3]>>,
     data  |-> features.data]

\* torch.cat(torch.unbind(features, dim=1), dim=0)
Contrast_feature(features) == Cat0(Unbind1(features))

\* mutant of Repeat: repeat_interleave, every entry repeated in place
RepeatInterleave(m, r, c) ==
    [p \in 1..(Len(m) * r) |->
        [q \in 1..(Cols(m) * c) |-> m[((p - 1) \div r) + 1][((q - 1) \div c) + 1]]]

\* mask.repeat(r, c): the whole matrix tiled r times down and c times across.
Repeat(m, r, c) == RepeatSeq([i \in 1..Len(m) |-> RepeatSeq(m[i], c)], r)

\* mutant of LogitsMask: the scatter is left out, nothing is zeroed
LogitsMaskOnes(mask, batch_size, anchor_count) == OnesLike(mask)

\* mutant of LogitsMask: torch.arange(batch_size), the first view's rows only
LogitsMaskFirstView(mask, batch_size, anchor_count) ==
    Scatter1(OnesLike(mask), Arange(batch_size), 0)

\* torch.scatter(torch.ones_like(mask), 1,
\*               torch.arange(batch_size * anchor_count).view(-1, 1), 0)
LogitsMask(mask, batch_size, anchor_count) ==
    Scatter1(OnesLike(mask), Arange(batch_size * anchor_count), 0)

\* the bag (multiset) of the values of a sequence
BagOf(seq) ==
    [x \in {seq[k] : k \in 1..Len(seq)} |->
        Cardinality({k \in 1..Len(seq) : seq[k] = x})]

\* the subsequence of the entries of `row` at the columns where keep is true
RECURSIVE Pick(_, _)
Pick(row, keep) ==
    IF row = <<>> THEN <<>>
    ELSE (IF Head(keep) THEN <<Head(row)>> ELSE <<>>) \o Pick(Tail(row), Tail(keep))

Dot(a, b) == SumSeq([d \in 1..Len(a) |-> a[d] * b[d]])

\* torch.div(torch.matmul(anchor_feature, contrast_feature.T), temperature):
\* entry [p,q] is the returned number divided by the temperature (hundredths).
Anchor_dot_contrast(anchor_feature, contrast_feature) ==
    LET anchors   == [p \in 1..anchor_feature.shape[1] |->
                         Row2(anchor_feature, p - 1)]
        contrasts == [q \in 1..contrast_feature.shape[1] |->
                         Row2(contrast_feature, q - 1)]
    IN  [p \in 1..Len(anchors) |->
            [q \in 1..Len(contrasts) |-> 100 * Dot(anchors[p], contrasts[q])]]

\* torch.max(row): the largest entry
RowMax(row) ==
    CHOOSE m \in {row[q] : q \in 1..Len(row)} : \A q \in 1..Len(row) : row[q] <= m

\* mutant of Logits: the row maximum is not subtracted
LogitsRaw(anchor_dot_contrast) == anchor_dot_contrast

\* logits = anchor_dot_contrast - logits_max.detach()
Logits(anchor_dot_contrast) ==
    LET logits_max == [p \in 1..Len(anchor_dot_contrast) |->
                          RowMax(anchor_dot_contrast[p])]
    IN  [p \in 1..Len(anchor_dot_contrast) |->
            [q \in 1..Len(anchor_dot_contrast[p]) |->
                anchor_dot_contrast[p][q] - logits_max[p]]]

\* float32 torch.exp(x) is 0 for x below -104 (x = logit / temperature)
ExpUnderflow == 104

ExpIsZero(logit, temperature) == logit < -(ExpUnderflow * temperature)

\* (mask * log_prob).sum(1) / mask.sum(1) for one row, with
\* exp_logits = exp(logits) * logits_mask and
\* log_prob = logits - log(exp_logits.sum(1)).
\* An exp sum of 0 makes log_prob +inf, and mask * log_prob NaN where the mask
\* is 0; a zero mask row sum makes the division 0/0 = NaN.  Nothing raises.
Mean_log_prob_pos(mask_row, logits_row, logits_mask_row, temperature) ==
    LET summed == [q \in 1..Len(logits_row) |->
                      logits_mask_row[q] = 1 /\ ~ExpIsZero(logits_row[q], temperature)]
        positive == [q \in 1..Len(mask_row) |-> mask_row[q] = 1]
    IN  IF \A q \in 1..Len(summed) : ~summed[q]
        THEN [kind |-> IF \E q \in 1..Len(mask_row) : mask_row[q] = 0
                       THEN "nan" ELSE "inf",
              pos |-> <<>>, den |-> <<>>]
        ELSE IF SumSeq(mask_row) = 0
        THEN [kind |-> "nan", pos |-> <<>>, den |-> <<>>]
        ELSE [kind |-> "finite",
              pos  |-> BagOf(Pick(logits_row, positive)),
              den  |-> BagOf(Pick(logits_row, summed))]

\* loss = -(temperature / base_temperature) * mean_log_prob_pos
\* loss.view(anchor_count, batch_size).mean(): NaN as soon as one row is
\* NaN, -inf when a row is +inf, else the mean of the rows' terms.
LossKind(rows) ==
    IF \E p \in 1..Len(rows) : rows[p].kind = "nan" THEN "nan"
    ELSE IF \E p \in 1..Len(rows) : rows[p].kind = "inf" THEN "-inf"
    ELSE "finite"

NoValue == [temperature |-> 0, base_temperature |-> 0, rows |-> <<>>]

LossMean(self, rows) ==
    IF LossKind(rows) = "finite"
    THEN [temperature |-> self.temperature,
          base_temperature |-> self.base_temperature,
          rows |-> BagOf(rows)]
    ELSE NoValue

\* mutant of LossOf: only the first half of the anchor rows is averaged
LossOfFirstHalf(self, anchor_dot_contrast, mask, logits_mask) ==
    LET logits == Logits(anchor_dot_contrast)
        mean_log_prob_pos ==
            [p \in 1..((Len(mask) + 1) \div 2) |->
                Mean_log_prob_pos(mask[p], logits[p], logits_mask[p],
                                  self.temperature)]
    IN  [loss  |-> LossKind(mean_log_prob_pos),
         value |-> LossMean(self, mean_log_prob_pos)]

\* The steps of forward after the mask product: from the scaled similarities
\* and the two masks to the loss.
LossOf(self, anchor_dot_contrast, mask, logits_mask) ==
    LET logits == Logits(anchor_dot_contrast)
        mean_log_prob_pos ==
            [p \in 1..Len(mask) |->
                Mean_log_prob_pos(mask[p], logits[p], logits_mask[p],
                                  self.temperature)]
    IN  [loss  |-> LossKind(mean_log_prob_pos),
         value |-> LossMean(self, mean_log_prob_pos)]

NoRes ==
    [outcome |-> "none", error |-> "", features |-> NoTensor, base |-> <<>>,
     contrast_feature |-> NoTensor, anchor_count |-> 0,
     anchor_dot_contrast |-> <<>>, logits |-> <<>>,
     mask |-> <<>>, logits_mask |-> <<>>,
     loss |-> "none", value |-> NoValue,
     calls |-> 0, before |-> None, first |-> None]

Raise(r, kind, what) == [r EXCEPT !.outcome = kind, !.error = what]

\* SupConLoss.__init__: the three arguments are stored on the object,
\* unchecked; the temperatures default to 0.07 (7 hundredths).
DefaultTemperature == 7

DefaultBaseTemperature == 7

SupConLoss(temperature, contrast_mode, base_temperature) ==
    [temperature |-> temperature, contrast_mode |-> contrast_mode,
     base_temperature |-> base_temperature]

\* mutant of ArgsAfterForward: the self-contrast entries are zeroed in the
\* caller's mask
ArgsAfterInPlace(args) ==
    [args EXCEPT !.mask =
        IF @.given
        THEN Some([i \in 1..Len(@.val) |->
                      [j \in 1..Len(@.val[i]) |-> IF i = j THEN 0 ELSE @.val[i][j]]])
        ELSE @]

\* The caller's features, labels and mask after forward: the names are
\* rebound to new tensors (view, float, repeat, the product) and torch.scatter
\* is the out-of-place one, so no argument is written to.
ArgsAfterForward(args) == args

\* SupConLoss.forward(features, labels, mask); temperature, contrast_mode and
\* base_temperature are read from self.
\* labels and mask are optional arguments: [given, val].
Forward(self, features, labels, mask) ==
    IF RankTooLow(features) THEN Raise(NoRes, "ValueError", "features")
    ELSE
    LET f == View3(features)
        batch_size == f.shape[1]
        r1 == [NoRes EXCEPT !.features = f]
    IN
    IF labels.given /\ mask.given THEN Raise(r1, "ValueError", "both")
    ELSE IF labels.given /\ LabelsMismatch(labels.val, batch_size)
    THEN Raise(r1, "ValueError", "labels")
    ELSE
    LET base == BaseMask(batch_size, labels, mask)
        contrast_count == f.shape[2]
        contrast_feature == Contrast_feature(f)
        r2 == [r1 EXCEPT !.base = base, !.contrast_feature = contrast_feature]
    IN
    IF self.contrast_mode \notin {"one", "all"} THEN Raise(r2, "ValueError", "mode")
    ELSE
    LET anchor_feature == IF self.contrast_mode = "one"
                          THEN Unbind1(f)[1] ELSE contrast_feature
        anchor_count == IF self.contrast_mode = "one" THEN 1 ELSE contrast_count
        anchor_dot_contrast == Anchor_dot_contrast(anchor_feature, contrast_feature)
        logits == Logits(anchor_dot_contrast)
        logits_rows == Len(logits)
        logits_cols == Cols(logits)
        tiled == Repeat(base, anchor_count, contrast_count)
        r3 == [r2 EXCEPT !.anchor_count = anchor_count, !.mask = tiled]
    IN
    IF ScatterFails(tiled, Arange(batch_size * anchor_count))
    THEN Raise(r3, "RuntimeError", "scatter")
    ELSE
    LET logits_mask == LogitsMask(tiled, batch_size, anchor_count)
        mask2 == Mul(tiled, logits_mask)
        r4 == [r3 EXCEPT !.mask = mask2, !.logits_mask = logits_mask]
    IN
    \* exp_logits = torch.exp(logits) * logits_mask
    IF ~(Broadcastable(logits_rows, Len(logits_mask))
         /\ Broadcastable(logits_cols, Cols(logits_mask)))
    THEN Raise(r4, "RuntimeError", "broadcast")
    ELSE
    \* loss.view(anchor_count, batch_size)
    IF BroadcastSize(logits_rows, Len(logits_mask)) # anchor_count * batch_size
    THEN Raise(r4, "RuntimeError", "view")
    ELSE
        LET l == LossOf(self, anchor_dot_contrast, mask2, logits_mask)
        IN  [r4 EXCEPT !.outcome = "returned",
                       !.anchor_dot_contrast = anchor_dot_contrast,
                       !.logits = logits,
                       !.loss = l.loss, !.value = l.value]

\* ------------------------------------------------------------ pretraining
\* The contrastive loader yields, for a batch of samples, data = [views0, views1]
\* (the two crops of every sample, in batch order) and the samples' labels.
\* An image is abstracted to the identity of the crop it holds.
ViewId(sample, crop) == 2 * sample + crop

\* One output row of the feature extractor for one input image.
Embed(x) == [d \in 1..EmbDim |-> 100 + x * EmbDim + d]

RECURSIVE EmbedRows(_)
EmbedRows(batch) ==
    IF batch = <<>> THEN <<>> ELSE Embed(Head(batch)) \o EmbedRows(Tail(batch))

\* model(data): one output row per input row, in input order.
ModelForward(batch) == [shape |-> <<Len(batch), EmbDim>>, data |-> EmbedRows(batch)]

\* mutant of ModelInvocations: the model is run on each view batch in turn
ModelInvocationsPerView(views0, views1) == << views0, views1 >>

\* The batches on which one pretraining step invokes the model:
\* data = torch.cat([data[0], data[1]], dim=0); features = model(data)
ModelInvocations(views0, views1) == << views0 \o views1 >>

\* mutant of Split0: (t[0::2], t[1::2]), alternate rows
Split0Strided(t, a, b) ==
    LET D == t.shape[2]
    IN  << [shape |-> <<a, D>>,
            data  |-> [k \in 1..(a * D) |->
                         t.data[2 * ((k - 1) \div D) * D + ((k - 1) % D) + 1]]],
           [shape |-> <<b, D>>,
            data  |-> [k \in 1..(b * D) |->
                         t.data[(2 * ((k - 1) \div D) + 1) * D + ((k - 1) % D) + 1]]] >>

\* torch.split(t, [a, b], dim=0) of a rank-2 tensor
Split0(t, a, b) ==
    LET D == t.shape[2]
    IN  << [shape |-> <<a, D>>, data |-> SubSeq(t.data, 1, a * D)],
           [shape |-> <<b, D>>, data |-> SubSeq(t.data, a * D + 1, (a + b) * D)] >>

\* t.unsqueeze(1): (N, D) -> (N, 1, D), same data
Unsqueeze1(t) == [shape |-> <<t.shape[1], 1, t.shape[2]>>, data |-> t.data]

\* torch.cat([a, b], dim=1) of rank-3 tensors (N, Va, D) and (N, Vb, D)
Cat1(a, b) ==
    LET N  == a.shape[1]
        Va == a.shape[2]
        Vb == b.shape[2]
        D  == a.shape[3]
        V  == Va + Vb
    IN  [shape |-> <<N, V, D>>,
         data  |-> [k \in 1..(N * V * D) |->
                      LET i == (k - 1) \div (V * D)
                          v == ((k - 1) \div D) % V
                          d == (k - 1) % D
                      IN  IF v < Va
                          THEN a.data[(i * Va + v) * D + d + 1]
                          ELSE b.data[(i * Vb + (v - Va)) * D + d + 1]]]

\* mutant of Assemble: features.view(bsz, 2, -1), consecutive rows paired
AssembleReshape(out, bsz) ==
    [shape |-> <<bsz, 2, out.shape[2]>>, data |-> out.data]

\* f1, f2 = torch.split(features, [bsz, bsz], dim=0)
\* features = torch.cat([f1.unsqueeze(1), f2.unsqueeze(1)], dim=1)
Assemble(out, bsz) ==
    LET f == Split0(out, bsz, bsz)
    IN  Cat1(Unsqueeze1(f[1]), Unsqueeze1(f[2]))

\* The outputs of the model invocations of one step, as `features` holds them
\* before the split: with the single invocation of the code, its output.
RECURSIVE ModelOutputs(_)
ModelOutputs(batches) ==
    IF batches = <<>> THEN <<>>
    ELSE <<ModelForward(Head(batches))>> \o ModelOutputs(Tail(batches))

NoCall == [features |-> NoTensor, labels |-> None, mask |-> None]

\* the part of the pretraining state that one iteration rebinds
NoStep ==
    [views |-> <<>>, labels |-> <<>>, invoked |-> <<>>, features |-> NoTensor]

\* ------------------------------------------------------------- input sets
Modes == {"all", "one", "two"}

Methods == {"SimCLR", "SupCon", "MoCo"}

\* shapes of the `features` argument: rank 1 to rank 4
FeatureShapes ==
    {<<n>> : n \in 1..MaxN}
    \cup {<<n, v>> : n \in 1..MaxN, v \in 1..MaxV}
    \cup {<<n, v, d>> : n \in 1..MaxN, v \in 1..MaxV, d \in 1..MaxD}
    \cup {<<n, v, d, MaxD>> : n \in 1..MaxN, v \in 1..MaxV, d \in 1..MaxD}

LabelVectors == UNION {[1..n -> 0..MaxLabel] : n \in 1..MaxN}

\* explicit masks: square 0/1 matrices, of the batch's size or not
ExplicitMasks == UNION {[1..m -> [1..m -> {0, 1}]] : m \in 1..MaxMaskN}

\* the (labels, mask) arguments of a call; giving both is an error whatever
\* they hold, so one label vector and one mask per size stand for that case
CallArgs ==
    {<<None, None>>}
    \cup {<<Some(l), None>> : l \in LabelVectors}
    \cup {<<None, Some(m)>> : m \in ExplicitMasks}
    \cup {<<Some([i \in 1..n |-> 0]), Some(Eye(n))>> : n \in 1..MaxMaskN}

CallInputs ==
    {[features |-> Iota(s), labels |-> a[1], mask |-> a[2]] :
        s \in FeatureShapes, a \in CallArgs}

\* Inputs of the calls whose loss value is followed: rank-3 features of one
\* scalar per view, of at most LossEntries entries taken from FeatureValues,
\* with labels or a mask of the batch's size (a mask of at most LossEntries
\* entries), or neither.
LossN == 2

LossV == 2

LossEntries == 4

LossLabel == 1

FeatureValues == {-1, 0, 1}

Temperatures == {1, DefaultTemperature}

LossFeatures ==
    UNION {{[shape |-> <<nv[1], nv[2], 1>>, data |-> d] :
                d \in [1..(nv[1] * nv[2]) -> FeatureValues]} :
           nv \in {x \in (1..LossN) \X (1..LossV) : x[1] * x[2] <= LossEntries}}

LossArgs(n) ==
    {<<None, None>>}
    \cup {<<Some(l), None>> : l \in [1..n -> 0..LossLabel]}
    \cup (IF n * n <= LossEntries
          THEN {<<None, Some(m)>> : m \in [1..n -> [1..n -> {0, 1}]]}
          ELSE {})

LossInputs ==
    UNION {{[features |-> f, labels |-> a[1], mask |-> a[2]] :
                a \in LossArgs(f.shape[1])} : f \in LossFeatures}

\* the dataset's label of a sample: two samples per class
DatasetLabel(sample) == sample \div 2

\* batches of the contrastive loader: distinct samples (a shuffled pass over
\* the dataset), each with its label
SampleSeqs ==
    {b \in UNION {[1..n -> 0..(NumSamples - 1)] : n \in 1..MaxN} :
        \A i, j \in 1..Len(b) : i # j => b[i] # b[j]}

Batches ==
    {[samples |-> b, labels |-> [i \in 1..Len(b) |-> DatasetLabel(b[i])]] :
        b \in SampleSeqs}

\* ----------------------------------------------------------- EarlyStopping
\* validation losses are 0..MaxLoss and delta is 0..MaxDelta, in one unit;
\* patience is 0..MaxPatience; an object is called at most MaxCalls times
MaxLoss == 4

MaxDelta == 2

MaxPatience == 3

MaxCalls == 5

\* EarlyStopping.__init__(patience, delta): best_score = None and
\* val_loss_min = np.Inf are the absent values
EarlyStopping(patience, delta) ==
    [patience |-> patience, delta |-> delta, counter |-> 0,
     best_score |-> None, early_stop |-> FALSE, val_loss_min |-> None]

\* save_checkpoint(val_loss, model): torch.save, then val_loss_min = val_loss
Save_checkpoint(self, val_loss) == [self EXCEPT !.val_loss_min = Some(val_loss)]

\* mutant of NoImprovement: a change of exactly delta does not count
NoImprovementWithin(score, best_score, delta) == score <= best_score + delta

\* the elif condition of __call__
NoImprovement(score, best_score, delta) == score < best_score + delta

\* mutant of PatienceExhausted: one more call is waited for
PatienceExceeded(self) == self.counter > self.patience

PatienceExhausted(self) == self.counter >= self.patience

\* mutant of Score: the loss itself is the score
ScoreRaw(val_loss) == val_loss

\* score = -val_loss: a lower loss is a higher score
Score(val_loss) == -val_loss

\* EarlyStopping.__call__(val_loss, model): the object after the call and
\* whether save_checkpoint was called
EarlyStoppingCall(self, val_loss) ==
    LET score == Score(val_loss)
    IN  IF ~self.best_score.given
        THEN [self  |-> Save_checkpoint([self EXCEPT !.best_score = Some(score)],
                                        val_loss),
              saved |-> TRUE]
        ELSE IF NoImprovement(score, self.best_score.val, self.delta)
        THEN LET counted == [self EXCEPT !.counter = @ + 1]
             IN  [self  |-> IF PatienceExhausted(counted)
                            THEN [counted EXCEPT !.early_stop = TRUE]
                            ELSE counted,
                  saved |-> FALSE]
        ELSE [self  |-> [Save_checkpoint([self EXCEPT !.best_score = Some(score)],
                                         val_loss)
                            EXCEPT !.counter = 0],
              saved |-> TRUE]

Min(a, b) == IF a <= b THEN a ELSE b

\* The variable early_stopping: the object (self), the number of calls made
\* and of checkpoints written, and of the latest call its argument (val_loss),
\* whether it saved, the object before it, the lowest validation loss of the
\* calls before it (lowest) and the number of calls in a row, up to it, that
\* did not save (streak).
EarlyStoppingState(self) ==
    [exists |-> TRUE, self |-> self, calls |-> 0, checkpoints |-> 0,
     val_loss |-> None, saved |-> FALSE, before |-> self, lowest |-> None,
     streak |-> 0]

NoEarlyStopping ==
    [EarlyStoppingState(EarlyStopping(0, 0)) EXCEPT !.exists = FALSE]

\* -------------------------------------------------------- TwoCropTransform
\* an image is ImgLen pixels of 0..MaxPixel; a loader serves at most MaxCrops
\* samples
ImgLen == 2

MaxPixel == 2

MaxCrops == 2

Images == [1..ImgLen -> 0..MaxPixel]

\* The wrapped augmentations of main: valid_transform (ToTensor, Normalize),
\* train_transform (RandomHorizontalFlip first) and contrastive_transform
\* (RandomHorizontalFlip and RandomResizedCrop first).
Transforms == {"valid_transform", "train_transform", "contrastive_transform"}

\* what one invocation of an augmentation draws: whether to flip, and the
\* window lo..hi to crop
Draws ==
    {[flip |-> f, lo |-> w[1], hi |-> w[2]] :
        f \in BOOLEAN, w \in {x \in (1..ImgLen) \X (1..ImgLen) : x[1] <= x[2]}}

\* what an invocation of each augmentation can draw: valid_transform draws
\* nothing and train_transform only the flip
DrawsOf(transform) ==
    IF transform = "valid_transform"
    THEN {[flip |-> FALSE, lo |-> 1, hi |-> ImgLen]}
    ELSE IF transform = "train_transform"
    THEN {[flip |-> f, lo |-> 1, hi |-> ImgLen] : f \in BOOLEAN}
    ELSE Draws

Reverse(x) == [k \in 1..Len(x) |-> x[Len(x) + 1 - k]]

\* RandomHorizontalFlip: a new image, mirrored when the draw says so
RandomHorizontalFlip(x, draw) == IF draw.flip THEN Reverse(x) ELSE x

\* RandomResizedCrop: the window lo..hi resized to the full length
RandomResizedCrop(x, draw) ==
    [k \in 1..Len(x) |->
        x[draw.lo + ((k - 1) * (draw.hi - draw.lo + 1)) \div Len(x)]]

\* ToTensor and Normalize((0.5,), (0.5,)): pixel p of 0..MaxPixel becomes
\* (p / MaxPixel - 0.5) / 0.5, kept as its numerator 2p - MaxPixel
Normalize(x) == [k \in 1..Len(x) |-> 2 * x[k] - MaxPixel]

\* transform(x): one invocation of the wrapped augmentation
Transform(transform, x, draw) ==
    IF transform = "valid_transform" THEN Normalize(x)
    ELSE IF transform = "train_transform"
    THEN Normalize(RandomHorizontalFlip(x, draw))
    ELSE Normalize(RandomResizedCrop(RandomHorizontalFlip(x, draw), draw))

\* TwoCropTransform.__init__(transform)
TwoCropTransform(transform) == [transform |-> transform]

\* mutant of TransformArguments: the second view is made from the first
TransformArgumentsChained(self, x, draws) ==
    <<x, Transform(self.transform, x, draws[1])>>

\* the arguments of the invocations of self.transform made by __call__(x),
\* in the order of the list that is built
TransformArguments(self, x, draws) == <<x, x>>

\* TwoCropTransform.__call__(x): the list returned, the arguments the
\* augmentation was invoked with, and self and x as the call leaves them
TwoCropCallOf(self, x, draws) ==
    LET invoked == TransformArguments(self, x, draws)
    IN  [out     |-> [k \in 1..Len(invoked) |->
                         Transform(self.transform, invoked[k], draws[k])],
         invoked |-> invoked,
         self    |-> self,
         x       |-> x]

\* The variable two_crop: the object (self), the image x the caller holds,
\* the number of calls made, and of the latest call the draws of the two
\* invocations, the arguments they received, the list returned, and self and
\* x as they were before it.
TwoCropState(self, x) ==
    [exists |-> TRUE, self |-> self, x |-> x, calls |-> 0, called |-> FALSE,
     draws |-> <<>>, invoked |-> <<>>, out |-> <<>>,
     before |-> [self |-> self, x |-> x]]

NoTwoCrop ==
    [TwoCropState(TwoCropTransform("valid_transform"), <<>>)
        EXCEPT !.exists = FALSE]

\* ------------------------------------------------------ calculate_accuracy
\* a batch of at most AccBatch score rows over the classes 0..NumClasses-1
NumClasses == 3

AccBatch == 2

ScoreRows == [1..NumClasses -> {0, 1}]

\* output.data.max(dim=1)[1] for one row: the index, from 0, of the first
\* maximal score
ArgMax(row) ==
    CHOOSE c \in 0..(Len(row) - 1) :
        /\ \A k \in 1..Len(row) : row[k] <= row[c + 1]
        /\ \A k \in 1..c : row[k] < row[c + 1]

\* x == 1.0, elementwise: output and target are both replaced by whether
\* they are class 1
IsOne(x) == x = 1

\* calculate_accuracy(output, target): the number of positions where the two
\* flattened boolean tensors agree, true-divided by output.size(0)
Calculate_accuracy(output, target) ==
    LET predicted == [i \in 1..Len(output) |-> IsOne(ArgMax(output[i]))]
        wanted    == [i \in 1..Len(target) |-> IsOne(target[i])]
    IN  [num |-> Cardinality({i \in 1..Len(output) : wanted[i] = predicted[i]}),
         den |-> Len(output)]

\* the batches of n samples: a row of scores and a class index per sample
Outputs(n) == [1..n -> ScoreRows]

Targets(n) == [1..n -> 0..(NumClasses - 1)]

\* The variable accuracy: the arguments of a call of calculate_accuracy and
\* the fraction it returns.
NoFraction == [num |-> 0, den |-> 0]

NoAccuracy == [output |-> <<>>, target |-> <<>>, called |-> FALSE,
               result |-> NoFraction]

\* ----------------------------------------------------------- MetricMonitor
\* the values added are 0..MaxVal; an object receives at most MaxUpdates
\* updates
MaxVal == 2

MaxUpdates == 4

MetricNames == {"Loss", "Accuracy"}

\* val / count, Python's true division, kept as the fraction
Fraction(num, den) == [num |-> num, den |-> den]

\* the defaultdict's factory {"val": 0, "count": 0, "avg": 0}; `present` tells
\* whether the dictionary holds the name
DefaultMetric == [present |-> FALSE, val |-> 0, count |-> 0, avg |-> Fraction(0, 1)]

\* MetricMonitor.reset(): an empty defaultdict
Reset(self) == [self EXCEPT !.metrics = [n \in MetricNames |-> DefaultMetric]]

\* MetricMonitor.__init__()
MetricMonitor == Reset([metrics |-> <<>>])

\* mutant of MetricUpdate: the average is taken before the value is added
MetricUpdateStale(metric, val) ==
    [present |-> TRUE, val |-> metric.val + val, count |-> metric.count + 1,
     avg |-> Fraction(metric.val, metric.count + 1)]

\* the three assignments of update on the entry of the name
MetricUpdate(metric, val) ==
    LET v == metric.val + val
        c == metric.count + 1
    IN  [present |-> TRUE, val |-> v, count |-> c, avg |-> Fraction(v, c)]

\* MetricMonitor.update(metric_name, val); self.metrics[metric_name] makes the
\* entry when the name is new
Update(self, metric_name, val) ==
    [self EXCEPT !.metrics[metric_name] = MetricUpdate(@, val)]

\* The variable metric_monitor: the object (self), the number of update calls
\* made on it, and the updates made since the last reset, in order (log).
MetricMonitorState(self) ==
    [exists |-> TRUE, self |-> self, updates |-> 0, log |-> <<>>]

NoMetricMonitor == [MetricMonitorState(MetricMonitor) EXCEPT !.exists = FALSE]

\* -------------------------------------------------------------------- main
\* main runs num_epochs epochs in each of its two parts (100 in the source);
\* both loaders over the training set yield the same number of batches
MaxEpochs == 2

MaxLoaderLen == 3

\* The parameter tensors that main creates, one name per module: the Encoder,
\* the projection head of Part 1's SupCon, the projection head of Part 2's
\* SupCon and the LinearClassifier.
ParamNames == {"encoder", "head1", "head2", "classifier"}

\* A parameter: whether its module has been built (live), its .grad (None, a
\* tensor of zeros or a tensor of values) and the number of times an
\* optimizer has written it (writes).
NoParam == [live |-> FALSE, grad |-> "None", writes |-> 0]

NewParam == [NoParam EXCEPT !.live = TRUE]

\* SupCon(encoder, head): the encoder object it is given and a new head
SupCon(encoder, head) == [encoder |-> encoder, head |-> head]

\* model.parameters()
Parameters(model) == {model.encoder, model.head}

\* torch.optim.Adam(params, ...): the optimizer holds the parameters it is given
Adam(params) == [params |-> params]

\* optimizer.zero_grad(): the gradients of the optimizer's parameters are set
\* to None (set_to_none, the default from torch 2.0 on) or zeroed in place
\* (the default before); a gradient that is None stays None
Zero_grad(optimizer, params, set_to_none) ==
    [p \in ParamNames |->
        IF p \in optimizer.params /\ params[p].grad # "None"
        THEN [params[p] EXCEPT !.grad = IF set_to_none THEN "None" ELSE "zeros"]
        ELSE params[p]]

\* loss.backward(): the gradient of the loss is accumulated into the
\* parameters the loss was computed from with autograd recording (leaves)
Backward(params, leaves) ==
    [p \in ParamNames |->
        IF p \in leaves THEN [params[p] EXCEPT !.grad = "values"] ELSE params[p]]

\* the parameters that optimizer.step() updates: those of the optimizer whose
\* gradient is not None
Stepped(optimizer, params) == {p \in optimizer.params : params[p].grad # "None"}

\* optimizer.step(): Adam with weight_decay = 1e-3 adds weight_decay * p to
\* the gradient and moves p by its running averages, so a parameter whose
\* gradient is a tensor of zeros is written as well
Step(optimizer, params) ==
    [p \in ParamNames |->
        IF p \in Stepped(optimizer, params)
        THEN [params[p] EXCEPT !.writes = @ + 1] ELSE params[p]]

\* the parameters a loss depends on with autograd recording: all of the
\* model's in pretraining (features = model(data)); in training the
\* classifier's only, the encoder being run under torch.no_grad()
PretrainingLeaves(model) == Parameters(model)

TrainingLeaves(classifier) == {classifier}

\* one iteration of a training loop: zero_grad, backward, step
Iteration(optimizer, params, leaves, set_to_none) ==
    LET grads == Backward(Zero_grad(optimizer, params, set_to_none), leaves)
    IN  [params |-> Step(optimizer, grads), stepped |-> Stepped(optimizer, grads)]

\* The variable main: the position of main (pc, epoch, batch_idx), what its
\* names model, classifier and optimizer are bound to, the parameters, the
\* parameters as load_state_dict left them at the start of Part 2 (loaded),
\* the function that ran the latest optimizer.step() (last) and the
\* parameters that step updated (stepped). set_to_none is the default of
\* zero_grad in the installed torch.
MainState(num_epochs, loader_len, set_to_none) ==
    LET model == SupCon("encoder", "head1")
    IN  [exists |-> TRUE, num_epochs |-> num_epochs, loader_len |-> loader_len,
         set_to_none |-> set_to_none,
         pc |-> "pretraining", epoch |-> 1, batch_idx |-> 0,
         model |-> model, classifier |-> "",
         optimizer |-> Adam(Parameters(model)),
         params |-> [p \in ParamNames |->
                        IF p \in Parameters(model) THEN NewParam ELSE NoParam],
         loaded |-> [p \in ParamNames |-> NoParam],
         last |-> "", stepped |-> {}]

NoMain ==
    [MainState(1, 1, FALSE) EXCEPT !.exists = FALSE, !.pc = "",
                                   !.optimizer = Adam({})]

\* --------------------------------------------------------- state machine
\* criterion: the SupConLoss object; call/res: the arguments and the outcome of
\* the latest forward call; pt: one run of pretraining(...) over an epoch.
InitPt(method) ==
    [method |-> method, status |-> "idle", batch_idx |-> 0, modelCalls |-> 0,
     optSteps |-> 0, lossUpdates |-> 0, lrUpdates |-> 0, step |-> NoStep]

\* A direct call criterion(features, labels, mask) with arguments drawn at Init.
Init ==
    /\ \E m \in Modes :
        criterion = SupConLoss(DefaultTemperature, m, DefaultBaseTemperature)
    /\ call \in CallInputs
    /\ res = NoRes
    /\ pt = InitPt("SimCLR")
    /\ early_stopping = NoEarlyStopping
    /\ two_crop = NoTwoCrop
    /\ accuracy = NoAccuracy
    /\ metric_monitor = NoMetricMonitor
    /\ main = NoMain

\* res also keeps the number of calls made on the criterion, the criterion
\* and the arguments as they were before the latest call, and the arguments
\* and the result of the first call.
ForwardCall ==
    /\ res.outcome = "none"
    /\ pt.status = "idle"
    /\ call # NoCall
    /\ res' = [Forward(criterion, call.features, call.labels, call.mask)
                  EXCEPT !.calls = res.calls + 1,
                         !.before = Some([self |-> criterion, call |-> call]),
                         !.first = res.first]
    /\ call' = ArgsAfterForward(call)
    /\ UNCHANGED <<criterion, pt, early_stopping, two_crop, accuracy, metric_monitor, main>>

Next == ForwardCall

Spec == Init /\ [][Next]_vars

\* A direct call on features whose values vary, with a criterion built with
\* any of the temperatures.
InitLoss ==
    /\ \E t \in Temperatures, m \in Modes, b \in Temperatures :
        criterion = SupConLoss(t, m, b)
    /\ call \in LossInputs
    /\ res = NoRes
    /\ pt = InitPt("SimCLR")
    /\ early_stopping = NoEarlyStopping
    /\ two_crop = NoTwoCrop
    /\ accuracy = NoAccuracy
    /\ metric_monitor = NoMetricMonitor
    /\ main = NoMain

SpecLoss == InitLoss /\ [][Next]_vars

\* pretraining(epoch, model, contrastive_loader, optimizer, criterion, method)
InitPretrain ==
    /\ \E m \in Modes :
        criterion = SupConLoss(DefaultTemperature, m, DefaultBaseTemperature)
    /\ call = NoCall
    /\ res = NoRes
    /\ \E m \in Methods : pt = [InitPt(m) EXCEPT !.status = "running"]
    /\ early_stopping = NoEarlyStopping
    /\ two_crop = NoTwoCrop
    /\ accuracy = NoAccuracy
    /\ metric_monitor = NoMetricMonitor
    /\ main = NoMain

\* One iteration of the loop over the loader, from the batch it yields to
\* optimizer.step(); an exception raised on the way ends the call.
PretrainStep ==
    /\ pt.status = "running"
    /\ pt.batch_idx < MaxBatches
    /\ \E b \in Batches :
        LET views0   == [i \in 1..Len(b.samples) |-> ViewId(b.samples[i], 0)]
            views1   == [i \in 1..Len(b.samples) |-> ViewId(b.samples[i], 1)]
            bsz      == Len(b.labels)
            invoked  == ModelInvocations(views0, views1)
            out      == Cat0(ModelOutputs(invoked))
            features == Assemble(out, bsz)
            step     == [views |-> <<views0, views1>>, labels |-> b.labels,
                         invoked |-> invoked, features |-> features]
            args     == IF pt.method = "SupCon"
                        THEN [features |-> features, labels |-> Some(b.labels),
                              mask |-> None]
                        ELSE [features |-> features, labels |-> None, mask |-> None]
            r        == Forward(criterion, args.features, args.labels, args.mask)
            p1       == [pt EXCEPT !.step = step, !.modelCalls = @ + Len(invoked)]
        IN  IF pt.method \notin {"SupCon", "SimCLR"}
            THEN /\ pt' = [p1 EXCEPT !.status = "raised"]
                 /\ UNCHANGED <<call, res>>
            ELSE /\ call' = args
                 /\ res' = r
                 /\ pt' = IF r.outcome = "returned"
                          THEN [p1 EXCEPT !.status = "stepped",
                                          !.batch_idx = @ + 1,
                                          !.lossUpdates = @ + 1,
                                          !.lrUpdates = @ + 1,
                                          !.optSteps = @ + 1]
                          ELSE [p1 EXCEPT !.status = "raised"]
    /\ UNCHANGED <<criterion, early_stopping, two_crop, accuracy, metric_monitor, main>>

\* The loop goes on to the next batch: the names data, labels, features and
\* loss of the finished iteration are rebound.
PretrainLoop ==
    /\ pt.status = "stepped"
    /\ pt' = [pt EXCEPT !.status = "running", !.step = NoStep]
    /\ call' = NoCall
    /\ res' = NoRes
    /\ UNCHANGED <<criterion, early_stopping, two_crop, accuracy, metric_monitor, main>>

\* The loader is exhausted: pretraining prints and returns the averages.
PretrainReturn ==
    /\ pt.status = "running"
    /\ pt' = [pt EXCEPT !.status = "done"]
    /\ UNCHANGED <<criterion, call, res, early_stopping, two_crop, accuracy, metric_monitor, main>>

NextPretrain == PretrainStep \/ PretrainLoop \/ PretrainReturn

SpecPretrain == InitPretrain /\ [][NextPretrain]_vars

\* early_stopping = EarlyStopping(patience, delta), then one call per epoch
InitEarly ==
    /\ criterion = SupConLoss(DefaultTemperature, "all", DefaultBaseTemperature)
    /\ call = NoCall
    /\ res = NoRes
    /\ pt = InitPt("SimCLR")
    /\ \E patience \in 0..MaxPatience, delta \in 0..MaxDelta :
        early_stopping = EarlyStoppingState(EarlyStopping(patience, delta))
    /\ two_crop = NoTwoCrop
    /\ accuracy = NoAccuracy
    /\ metric_monitor = NoMetricMonitor
    /\ main = NoMain

\* early_stopping(valid_loss, model)
EarlyCall ==
    /\ early_stopping.exists
    /\ early_stopping.calls < MaxCalls
    /\ \E val_loss \in 0..MaxLoss :
        LET r == EarlyStoppingCall(early_stopping.self, val_loss)
        IN  early_stopping' =
                [exists |-> TRUE,
                 self |-> r.self,
                 calls |-> early_stopping.calls + 1,
                 checkpoints |-> early_stopping.checkpoints
                                     + (IF r.saved THEN 1 ELSE 0),
                 val_loss |-> Some(val_loss),
                 saved |-> r.saved,
                 before |-> early_stopping.self,
                 lowest |-> IF ~early_stopping.val_loss.given THEN None
                            ELSE IF ~early_stopping.lowest.given
                            THEN early_stopping.val_loss
                            ELSE Some(Min(early_stopping.lowest.val,
                                          early_stopping.val_loss.val)),
                 streak |-> IF r.saved THEN 0 ELSE early_stopping.streak + 1]
    /\ UNCHANGED <<criterion, call, res, pt, two_crop, accuracy, metric_monitor, main>>

NextEarly == EarlyCall

SpecEarly == InitEarly /\ [][NextEarly]_vars

\* contrastive_set = MNIST(..., transform=TwoCropTransform(transform)) with
\* the first image about to be served
InitTwoCrop ==
    /\ criterion = SupConLoss(DefaultTemperature, "all", DefaultBaseTemperature)
    /\ call = NoCall
    /\ res = NoRes
    /\ pt = InitPt("SimCLR")
    /\ early_stopping = NoEarlyStopping
    /\ \E t \in Transforms, x \in Images :
        two_crop = TwoCropState(TwoCropTransform(t), x)
    /\ accuracy = NoAccuracy
    /\ metric_monitor = NoMetricMonitor
    /\ main = NoMain

\* the dataset applies its transform to the image: two_crop(x)
TwoCropCall ==
    /\ two_crop.exists
    /\ ~two_crop.called
    /\ \E d1 \in DrawsOf(two_crop.self.transform),
          d2 \in DrawsOf(two_crop.self.transform) :
        LET r == TwoCropCallOf(two_crop.self, two_crop.x, <<d1, d2>>)
        IN  two_crop' = [two_crop EXCEPT !.self = r.self, !.x = r.x,
                                         !.calls = @ + 1, !.called = TRUE,
                                         !.draws = <<d1, d2>>,
                                         !.invoked = r.invoked, !.out = r.out,
                                         !.before = [self |-> two_crop.self,
                                                     x |-> two_crop.x]]
    /\ UNCHANGED <<criterion, call, res, pt, early_stopping, accuracy, metric_monitor, main>>

\* the loader goes on to the next image of the dataset
TwoCropLoad ==
    /\ two_crop.exists
    /\ two_crop.called
    /\ two_crop.calls < MaxCrops
    /\ \E x \in Images :
        two_crop' = [TwoCropState(two_crop.self, x) EXCEPT !.calls = two_crop.calls]
    /\ UNCHANGED <<criterion, call, res, pt, early_stopping, accuracy, metric_monitor, main>>

NextTwoCrop == TwoCropCall \/ TwoCropLoad

SpecTwoCrop == InitTwoCrop /\ [][NextTwoCrop]_vars

\* Calls in a row on one criterion, or on one TwoCropTransform: a criterion
\* is called at most MaxForwardCalls times, on one sample of two views of
\* unit norm.
MaxForwardCalls == 3

RepeatInputs ==
    UNION {{[features |-> [shape |-> <<1, 2, 1>>, data |-> d],
             labels |-> a[1], mask |-> a[2]] : a \in LossArgs(1)} :
           d \in [1..2 -> {-1, 1}]}

InitCalls ==
    /\ \E t \in Temperatures, m \in {"all", "one"} :
        criterion = SupConLoss(t, m, DefaultBaseTemperature)
    /\ res = NoRes
    /\ pt = InitPt("SimCLR")
    /\ early_stopping = NoEarlyStopping
    /\ \/ call \in RepeatInputs /\ two_crop = NoTwoCrop
       \/ /\ call = NoCall
          /\ \E t \in Transforms, x \in Images :
                two_crop = TwoCropState(TwoCropTransform(t), x)
    /\ accuracy = NoAccuracy
    /\ metric_monitor = NoMetricMonitor
    /\ main = NoMain

\* The caller goes on to its next call, with new arguments or the same.
ForwardRebind ==
    /\ res.outcome # "none"
    /\ pt.status = "idle"
    /\ res.calls < MaxForwardCalls
    /\ call' \in RepeatInputs
    /\ res' = [NoRes EXCEPT
                  !.calls = res.calls,
                  !.first = IF res.first.given THEN res.first
                            ELSE Some([call |-> call, outcome |-> res.outcome,
                                       base |-> res.base, mask |-> res.mask,
                                       logits_mask |-> res.logits_mask,
                                       loss |-> res.loss, value |-> res.value])]
    /\ UNCHANGED <<criterion, pt, early_stopping, two_crop, accuracy, metric_monitor, main>>

NextCalls == ForwardCall \/ ForwardRebind \/ TwoCropCall \/ TwoCropLoad

SpecCalls == InitCalls /\ [][NextCalls]_vars

\* accuracy = calculate_accuracy(output, labels)
InitAccuracy ==
    /\ criterion = SupConLoss(DefaultTemperature, "all", DefaultBaseTemperature)
    /\ call = NoCall
    /\ res = NoRes
    /\ pt = InitPt("SimCLR")
    /\ early_stopping = NoEarlyStopping
    /\ two_crop = NoTwoCrop
    /\ \E n \in 1..AccBatch :
        \E output \in Outputs(n), target \in Targets(n) :
            accuracy = [NoAccuracy EXCEPT !.output = output, !.target = target]
    /\ metric_monitor = NoMetricMonitor
    /\ main = NoMain

AccuracyCall ==
    /\ accuracy.output # <<>>
    /\ ~accuracy.called
    /\ accuracy' = [accuracy EXCEPT
                       !.called = TRUE,
                       !.result = Calculate_accuracy(accuracy.output,
                                                     accuracy.target)]
    /\ UNCHANGED <<criterion, call, res, pt, early_stopping, two_crop,
                   metric_monitor, main>>

NextAccuracy == AccuracyCall

SpecAccuracy == InitAccuracy /\ [][NextAccuracy]_vars

\* metric_monitor = MetricMonitor()
InitMonitor ==
    /\ criterion = SupConLoss(DefaultTemperature, "all", DefaultBaseTemperature)
    /\ call = NoCall
    /\ res = NoRes
    /\ pt = InitPt("SimCLR")
    /\ early_stopping = NoEarlyStopping
    /\ two_crop = NoTwoCrop
    /\ accuracy = NoAccuracy
    /\ metric_monitor = MetricMonitorState(MetricMonitor)
    /\ main = NoMain

\* metric_monitor.update(name, val)
MonitorUpdate ==
    /\ metric_monitor.exists
    /\ metric_monitor.updates < MaxUpdates
    /\ \E name \in MetricNames, val \in 0..MaxVal :
        metric_monitor' =
            [metric_monitor EXCEPT
                !.self = Update(@, name, val),
                !.updates = @ + 1,
                !.log = Append(@, [name |-> name, val |-> val])]
    /\ UNCHANGED <<criterion, call, res, pt, early_stopping, two_crop,
                   accuracy, main>>

\* metric_monitor.reset()
MonitorReset ==
    /\ metric_monitor.exists
    /\ metric_monitor.log # <<>>
    /\ metric_monitor' = [metric_monitor EXCEPT !.self = Reset(@), !.log = <<>>]
    /\ UNCHANGED <<criterion, call, res, pt, early_stopping, two_crop,
                   accuracy, main>>

NextMonitor == MonitorUpdate \/ MonitorReset

SpecMonitor == InitMonitor /\ [][NextMonitor]_vars

\* main(), from the construction of the optimizer of Part 1 on
InitMain ==
    /\ criterion = SupConLoss(DefaultTemperature, "all", DefaultBaseTemperature)
    /\ call = NoCall
    /\ res = NoRes
    /\ pt = InitPt("SimCLR")
    /\ early_stopping = NoEarlyStopping
    /\ two_crop = NoTwoCrop
    /\ accuracy = NoAccuracy
    /\ metric_monitor = NoMetricMonitor
    /\ \E num_epochs \in 1..MaxEpochs, loader_len \in 1..MaxLoaderLen,
          set_to_none \in BOOLEAN :
        main = MainState(num_epochs, loader_len, set_to_none)

\* one iteration of the loop of pretraining(epoch, model, contrastive_loader,
\* optimizer, criterion)
MainPretrainingStep ==
    /\ main.exists /\ main.pc = "pretraining"
    /\ main.batch_idx < main.loader_len
    /\ LET it == Iteration(main.optimizer, main.params,
                           PretrainingLeaves(main.model), main.set_to_none)
       IN  main' = [main EXCEPT !.params = it.params, !.stepped = it.stepped,
                                !.last = "pretraining", !.batch_idx = @ + 1]
    /\ UNCHANGED <<criterion, call, res, pt, early_stopping, two_crop,
                   accuracy, metric_monitor>>

\* pretraining returns and main goes on to its next epoch
MainPretrainingReturn ==
    /\ main.exists /\ main.pc = "pretraining"
    /\ main.batch_idx = main.loader_len
    /\ main.epoch < main.num_epochs
    /\ main' = [main EXCEPT !.epoch = @ + 1, !.batch_idx = 0]
    /\ UNCHANGED <<criterion, call, res, pt, early_stopping, two_crop,
                   accuracy, metric_monitor>>

\* the last pretraining epoch returns; save_model; Part 2 builds a new SupCon
\* around the same encoder, a LinearClassifier, and loads the saved state
\* into the model. optimizer is not assigned to.
MainPart2 ==
    /\ main.exists /\ main.pc = "pretraining"
    /\ main.batch_idx = main.loader_len
    /\ main.epoch = main.num_epochs
    /\ LET params == [main.params EXCEPT !["head2"] = NewParam,
                                         !["classifier"] = NewParam]
       IN  main' = [main EXCEPT !.pc = "training", !.epoch = 1, !.batch_idx = 0,
                                !.model = SupCon(main.model.encoder, "head2"),
                                !.classifier = "classifier",
                                !.params = params, !.loaded = params]
    /\ UNCHANGED <<criterion, call, res, pt, early_stopping, two_crop,
                   accuracy, metric_monitor>>

\* one iteration of the loop of training(epoch, model, classifier,
\* train_loader, optimizer, criterion)
MainTrainingStep ==
    /\ main.exists /\ main.pc = "training"
    /\ main.batch_idx < main.loader_len
    /\ LET it == Iteration(main.optimizer, main.params,
                           TrainingLeaves(main.classifier), main.set_to_none)
       IN  main' = [main EXCEPT !.params = it.params, !.stepped = it.stepped,
                                !.last = "training", !.batch_idx = @ + 1]
    /\ UNCHANGED <<criterion, call, res, pt, early_stopping, two_crop,
                   accuracy, metric_monitor>>

\* training returns; validation, scheduler.step() and early_stopping change
\* no parameter; the loop goes on to the next epoch or ends (early_stop, with
\* patience = 30, is not set within MaxEpochs epochs)
MainTrainingReturn ==
    /\ main.exists /\ main.pc = "training"
    /\ main.batch_idx = main.loader_len
    /\ main' = IF main.epoch < main.num_epochs
               THEN [main EXCEPT !.epoch = @ + 1, !.batch_idx = 0]
               ELSE [main EXCEPT !.pc = "done"]
    /\ UNCHANGED <<criterion, call, res, pt, early_stopping, two_crop,
                   accuracy, metric_monitor>>

NextMain ==
    \/ MainPretrainingStep
    \/ MainPretrainingReturn
    \/ MainPart2
    \/ MainTrainingStep
    \/ MainTrainingReturn

SpecMain == InitMain /\ [][NextMain]_vars

\* ----------------------------------------------------------------- claims
\* the arguments of the latest forward call, by the names the claims use
N == call.features.shape[1]
V == call.features.shape[2]
Returned == res.outcome = "returned"
Unsupervised == ~call.labels.given /\ ~call.mask.given
RowSum(m, p) == SumSeq(m[p])

\* C1: with contrast_mode 'all', V >= 2 and no explicit mask, the final mask
\* has mask[p,q] = 1 iff p # q and B[p mod N, q mod N] = 1, where B is the
\* identity without labels and label equality with labels; all else is 0.
C1_PositiveMask ==
    (Returned /\ criterion.contrast_mode = "all" /\ ~call.mask.given /\ V >= 2) =>
        /\ Len(res.mask) = N * V
        /\ \A p \in 1..(N * V) :
            /\ Len(res.mask[p]) = N * V
            /\ \A q \in 1..(N * V) :
                LET i == ((p - 1) % N) + 1
                    j == ((q - 1) % N) + 1
                    B == IF call.labels.given
                         THEN call.labels.val[i] = call.labels.val[j]
                         ELSE i = j
                IN  res.mask[p][q] = IF p # q /\ B THEN 1 ELSE 0

\* witness of C1: three samples, two views, labels [a, a, b]: view 0 of sample 0
\* has view 0 of sample 1 as a positive and view 0 of sample 2 as a negative
C1_Witness ==
    /\ Returned /\ criterion.contrast_mode = "all"
    /\ call.labels.given /\ N = 3 /\ V = 2
    /\ call.labels.val[1] = call.labels.val[2]
    /\ call.labels.val[1] # call.labels.val[3]
    /\ res.mask[1][2] = 1 /\ res.mask[1][3] = 0 /\ res.mask[1][5] = 1

\* C2: with V = 2 and neither labels nor mask, every row of the final mask has
\* exactly one 1: row i at column i+N and row i+N at column i.
C2_SolePositive ==
    (Returned /\ Unsupervised /\ V = 2) =>
        /\ criterion.contrast_mode = "all" => Len(res.mask) = 2 * N
        /\ \A p \in 1..Len(res.mask) :
            /\ RowSum(res.mask, p) = 1
            /\ \A q \in 1..(2 * N) :
                res.mask[p][q] = IF q - 1 = (p - 1 + N) % (2 * N) THEN 1 ELSE 0

\* witness of C2: an unsupervised call on three samples with two views
C2_Witness ==
    /\ Returned /\ Unsupervised /\ criterion.contrast_mode = "all"
    /\ N = 3 /\ V = 2
    /\ res.mask[2][5] = 1 /\ res.mask[5][2] = 1

\* C3: with labels and V = 2 the final mask is symmetric and no row sums
\* to zero.
C3_SymmetricNoEmptyRow ==
    (Returned /\ call.labels.given /\ V = 2) =>
        /\ \A p \in 1..Len(res.mask) : RowSum(res.mask, p) >= 1
        /\ criterion.contrast_mode = "all" =>
              \A p, q \in 1..(2 * N) : res.mask[p][q] = res.mask[q][p]

\* witness of C3: labels with a class of two samples and a class of one
C3_Witness ==
    /\ Returned /\ call.labels.given /\ criterion.contrast_mode = "all"
    /\ N = 3 /\ V = 2
    /\ call.labels.val[1] # call.labels.val[2]
    /\ call.labels.val[2] = call.labels.val[3]
    /\ RowSum(res.mask, 1) = 1 /\ RowSum(res.mask, 2) = 3

\* C4 (as claimed): whenever a row of the final, self-excluded mask sums to
\* zero, forward ends in an error and returns no loss.
C4_DegenerateMaskRaises ==
    (res.logits_mask # <<>> /\ \E p \in 1..Len(res.mask) : RowSum(res.mask, p) = 0)
        => res.outcome \in {"none", "ValueError", "RuntimeError"}

\* C5: labels whose number differs from the batch size make the call fail
\* before a mask or a loss is computed; no loss is returned.
C5_LabelCountChecked ==
    (res.outcome # "none" /\ call.labels.given /\ Len(call.labels.val) # N) =>
        /\ res.outcome = "ValueError"
        /\ res.base = <<>> /\ res.mask = <<>> /\ res.logits_mask = <<>>
        /\ res.loss = "none"

\* witness of C5: rank-3 features of two samples with three labels are
\* rejected by the label check itself
C5_Witness ==
    /\ res.outcome = "ValueError" /\ res.error = "labels"
    /\ Rank(call.features) = 3 /\ N = 2 /\ Len(call.labels.val) = 3
    /\ ~call.mask.given

\* C6: features of rank below 3 are rejected before any other step; features
\* of rank above 3 are reshaped to (N, V, -1), trailing entries kept in
\* row-major order, and pass the shape check (an otherwise valid call returns).
C6_RankReduction ==
    res.outcome # "none" =>
        /\ Rank(call.features) < 3 =>
              /\ res.outcome = "ValueError" /\ res.error = "features"
              /\ res.features = NoTensor /\ res.base = <<>>
              /\ res.contrast_feature = NoTensor
        /\ Rank(call.features) > 3 =>
              LET D == call.features.shape[3]
                  E == call.features.shape[4]
              IN  /\ res.error # "features"
                  /\ res.features.shape = <<N, V, D * E>>
                  /\ \A i \in 0..(N - 1), v \in 0..(V - 1), d \in 0..(D - 1),
                        e \in 0..(E - 1) :
                        Row3(res.features, i, v)[d * E + e + 1]
                            = call.features.data[((i * V + v) * D + d) * E + e + 1]
                  /\ (Unsupervised /\ criterion.contrast_mode \in {"all", "one"})
                        => Returned

\* witness of C6: a rank-4 (2, 2, 2, 2) tensor is accepted and a loss returned
C6_Witness ==
    /\ Returned /\ call.features.shape = <<2, 2, 2, 2>>
    /\ res.features.shape = <<2, 2, 4>>

\* C7: the flattened row v*N+i is features[i,v,:]; the flattened tensor has
\* N*V rows.
C7_ViewMajorFlatten ==
    res.contrast_feature # NoTensor =>
        LET f == res.features
        IN  /\ res.contrast_feature.shape = <<f.shape[1] * f.shape[2], f.shape[3]>>
            /\ \A i \in 0..(f.shape[1] - 1), v \in 0..(f.shape[2] - 1) :
                  Row2(res.contrast_feature, v * f.shape[1] + i) = Row3(f, i, v)

\* witness of C7: three samples, two views, two entries per embedding; the
\* second view of sample 0 is flattened row N
C7_Witness ==
    /\ Returned /\ call.features.shape = <<3, 2, 2>>
    /\ Row2(res.contrast_feature, 3) = Row3(call.features, 0, 1)
    /\ Row2(res.contrast_feature, 1) # Row3(call.features, 0, 1)

\* C10: the denominator mask has one row per anchor and one column per view,
\* a zero where the column is the anchor's own view and a one everywhere else.
C10_LogitsMaskDiagonal ==
    Returned =>
        /\ Len(res.logits_mask) = N * res.anchor_count
        /\ \A p \in 1..Len(res.logits_mask) :
            /\ Len(res.logits_mask[p]) = N * V
            /\ \A q \in 1..(N * V) :
                  res.logits_mask[p][q] = IF q = p THEN 0 ELSE 1

\* witness of C10: all views are anchors, two samples with two views
C10_Witness ==
    /\ Returned /\ criterion.contrast_mode = "all" /\ N = 2 /\ V = 2
    /\ res.logits_mask[3][3] = 0 /\ res.logits_mask[3][1] = 1
    /\ res.logits_mask[4][4] = 0

\* C8: after assembly, features[i,0,:] is the extractor's output for the first
\* view of sample i and features[i,1,:] its output for the second view.
C8_PairedViews ==
    pt.step.features # NoTensor =>
        LET n == Len(pt.step.labels)
        IN  /\ pt.step.features.shape = <<n, 2, EmbDim>>
            /\ \A i \in 0..(n - 1) :
                  /\ Row3(pt.step.features, i, 0) = Embed(pt.step.views[1][i + 1])
                  /\ Row3(pt.step.features, i, 1) = Embed(pt.step.views[2][i + 1])

\* witness of C8: a batch of at least two samples has been assembled and its
\* loss computed
C8_Witness ==
    /\ pt.status = "stepped" /\ Len(pt.step.labels) >= 2
    /\ Row3(pt.step.features, 1, 1) = Embed(pt.step.views[2][2])

SameMaskAndLoss(r1, r2) ==
    /\ r1.outcome = r2.outcome
    /\ r1.base = r2.base
    /\ r1.mask = r2.mask
    /\ r1.logits_mask = r2.logits_mask
    /\ r1.loss = r2.loss
    /\ r1.value = r2.value

PairwiseDistinct(labels) ==
    \A i, j \in 1..Len(labels) : i # j => labels[i] # labels[j]

\* C11: a call with N pairwise distinct labels builds the same masks and
\* returns the same loss as the call on the same features without labels.
C11_DistinctLabelsAsUnsupervised ==
    (res.outcome # "none" /\ call.labels.given /\ ~call.mask.given
        /\ Len(call.labels.val) = N /\ PairwiseDistinct(call.labels.val)) =>
        SameMaskAndLoss(res, Forward(criterion, call.features, None, None))

\* witness of C11: labels [0,1] on two samples of two views each, with a
\* finite loss returned
C11_Witness ==
    /\ Returned /\ res.loss = "finite" /\ criterion.contrast_mode = "all"
    /\ N = 2 /\ V = 2 /\ call.labels.given /\ call.labels.val = <<0, 1>>
    /\ res.base = Eye(2)

\* the number of batch samples that carry the label of the sample of row p
SameLabelCount(labels, p) ==
    Cardinality({j \in 1..Len(labels) :
                    labels[j] = labels[((p - 1) % Len(labels)) + 1]})

\* C12: with two views and labels, row p of the final mask sums to 2*c - 1,
\* c being the number of samples labelled as the sample of row p.
C12_RowSumTwoViews ==
    (Returned /\ call.labels.given /\ V = 2) =>
        \A p \in 1..Len(res.mask) :
            RowSum(res.mask, p) = 2 * SameLabelCount(call.labels.val, p) - 1

\* witness of C12: labels [0,0] on two samples: the four rows sum to 3
C12_Witness ==
    /\ Returned /\ criterion.contrast_mode = "all" /\ N = 2 /\ V = 2
    /\ call.labels.given /\ call.labels.val = <<0, 0>>
    /\ Len(res.mask) = 4
    /\ \A p \in 1..4 : RowSum(res.mask, p) = 3

\* M[i,j] = 1 iff L[i] = L[j]
EqualityMask(L) ==
    [i \in 1..Len(L) |-> [j \in 1..Len(L) |-> IF L[i] = L[j] THEN 1 ELSE 0]]

\* C13: a call without labels and mask is the call with mask = identity(N),
\* and a call with labels L is the call with mask = M, M[i,j] = (L[i] = L[j]):
\* same outcome, same masks, same loss.
C13_ModeAgnostic ==
    /\ (res.outcome # "none" /\ Unsupervised) =>
          SameMaskAndLoss(res, Forward(criterion, call.features, None, Some(Eye(N))))
    /\ (res.outcome # "none" /\ call.labels.given /\ ~call.mask.given
            /\ Len(call.labels.val) = N) =>
          SameMaskAndLoss(res, Forward(criterion, call.features, None,
                                       Some(EqualityMask(call.labels.val))))
    /\ (res.outcome # "none" /\ call.mask.given /\ ~call.labels.given
            /\ call.mask.val = Eye(N)) =>
          SameMaskAndLoss(res, Forward(criterion, call.features, None, None))

\* witness of C13: two samples of one class, two views each, given by their
\* labels, with a finite loss returned
C13_Witness ==
    /\ Returned /\ res.loss = "finite" /\ N = 2 /\ V = 2
    /\ call.labels.given /\ call.labels.val = <<0, 0>>
    /\ res.base # Eye(2)
    /\ criterion.contrast_mode = "all"

\* constants added to the scaled similarities, in units of 1/temperature
Shifts == {-250, -1, 1, 250}

Shifted(m, c) == [p \in 1..Len(m) |-> [q \in 1..Len(m[p]) |-> m[p][q] + c]]

\* C16: the loss is the one computed from the scaled similarity matrix with
\* any constant added to all its entries before the row maximum is subtracted.
C16_ShiftInvariant ==
    Returned =>
        \A c \in Shifts :
            LossOf(criterion, Shifted(res.anchor_dot_contrast, c),
                   res.mask, res.logits_mask)
                = [loss |-> res.loss, value |-> res.value]

\* witness of C16: a finite loss over similarities that differ within a row
C16_Witness ==
    /\ Returned /\ res.loss = "finite" /\ N = 2 /\ V = 2
    /\ \E p \in 1..Len(res.logits) :
          \E q \in 1..Len(res.logits[p]) : res.logits[p][q] < 0
    /\ \E p \in 1..Len(res.anchor_dot_contrast) :
          RowMax(res.anchor_dot_contrast[p]) # 0

\* A finite loss is >= 0 when every positive's logit is at most a logit summed
\* in its row's denominator: then every log_prob of a positive is <= 0.
NonNegative(value) ==
    \A row \in DOMAIN value.rows :
        \A l \in DOMAIN row.pos : \E k \in DOMAIN row.den : l <= k

\* C17 (as claimed): when every row of the final mask has a positive and both
\* temperatures are positive, the returned loss is a number >= 0.
C17_LossNonNegative ==
    (Returned /\ criterion.temperature > 0 /\ criterion.base_temperature > 0
        /\ \A p \in 1..Len(res.mask) : RowSum(res.mask, p) >= 1) =>
        /\ res.loss = "finite"
        /\ NonNegative(res.value)

\* features[:, [1, 0], :] of an (N, 2, D) tensor: the two views exchanged
SwapViews(t) ==
    LET D == t.shape[3]
    IN  [shape |-> t.shape,
         data  |-> [k \in 1..Len(t.data) |->
                       LET i == (k - 1) \div (2 * D)
                           v == ((k - 1) \div D) % 2
                           d == (k - 1) % D
                       IN  t.data[(i * 2 + (1 - v)) * D + d + 1]]]

\* the flattened index p (from 1) after the exchange: (p + N) mod 2N from 0
SwapIndex(p, n) == ((p - 1 + n) % (2 * n)) + 1

MapsOntoItself(m, n) ==
    \A p \in 1..Len(m) : \A q \in 1..Len(m[p]) :
        m[SwapIndex(p, n)][SwapIndex(q, n)] = m[p][q]

\* C18: with two views and contrast_mode 'all', exchanging the views maps the
\* mask and logits_mask onto themselves under p -> (p + N) mod 2N, carries
\* the logits along, and the call on the exchanged features returns the same
\* loss.
C18_ViewSwapSymmetric ==
    (Returned /\ V = 2 /\ criterion.contrast_mode = "all") =>
        LET sw == Forward(criterion, SwapViews(call.features), call.labels, call.mask)
        IN  /\ MapsOntoItself(res.mask, N)
            /\ MapsOntoItself(res.logits_mask, N)
            /\ sw.outcome = "returned"
            /\ sw.mask = res.mask /\ sw.logits_mask = res.logits_mask
            /\ \A p \in 1..(2 * N) : \A q \in 1..(2 * N) :
                  sw.logits[SwapIndex(p, N)][SwapIndex(q, N)] = res.logits[p][q]
            /\ sw.loss = res.loss /\ sw.value = res.value

\* witness of C18: two samples whose two views differ, with a finite loss
\* whose rows differ
C18_Witness ==
    /\ Returned /\ res.loss = "finite" /\ criterion.contrast_mode = "all"
    /\ N = 2 /\ V = 2
    /\ SwapViews(call.features) # call.features
    /\ res.logits[1] # res.logits[3]
    /\ Cardinality(DOMAIN res.value.rows) >= 2

\* the latest call of the EarlyStopping object, by the names the claims use
Called == early_stopping.val_loss.given
FirstCall == ~early_stopping.before.best_score.given

C20_StopsAtPatience ==
    early_stopping.self.patience >= 1 =>
        /\ early_stopping.self.counter = early_stopping.streak
        /\ (Called /\ ~early_stopping.saved) =>
              early_stopping.self.counter = early_stopping.before.counter + 1
        /\ (Called /\ early_stopping.saved) => early_stopping.self.counter = 0
        /\ (early_stopping.self.early_stop /\ ~early_stopping.before.early_stop) =>
              /\ ~early_stopping.saved
              /\ early_stopping.streak = early_stopping.self.patience
        /\ early_stopping.streak >= early_stopping.self.patience =>
              early_stopping.self.early_stop
        /\ (~early_stopping.self.early_stop) =>
              early_stopping.streak < early_stopping.self.patience

\* witness of C20: patience 2, an improvement after the first call, then the
\* second call in a row without improvement sets early_stop
C20_Witness ==
    /\ early_stopping.self.patience = 2 /\ early_stopping.streak = 2
    /\ early_stopping.self.early_stop /\ ~early_stopping.before.early_stop
    /\ early_stopping.checkpoints = 2 /\ early_stopping.calls = 4

\* C26: in a SimCLR pretraining step with contrast_mode 'all' on n samples,
\* the embedding of view k of sample i is row k*n+i of the flattened
\* features; in its row of the final mask the only 1 is at the column of the
\* embedding of view 1-k of sample i, and every column of another sample is 0
\* in the mask and 1 in logits_mask (a negative).
C26_OneIndexOrder ==
    (pt.method = "SimCLR" /\ criterion.contrast_mode = "all" /\ Returned
        /\ pt.step.features # NoTensor) =>
        LET n == Len(pt.step.labels)
        IN  /\ Len(res.mask) = 2 * n
            /\ \A i \in 0..(n - 1), k \in 0..1 :
                  LET p == k * n + i + 1
                  IN  /\ Row2(res.contrast_feature, p - 1)
                            = Embed(pt.step.views[k + 1][i + 1])
                      /\ Len(res.mask[p]) = 2 * n
                      /\ \A j \in 0..(n - 1), l \in 0..1 :
                            LET q == l * n + j + 1
                            IN  /\ res.mask[p][q] = 1 <=> (j = i /\ l = 1 - k)
                                /\ j # i =>
                                      /\ res.mask[p][q] = 0
                                      /\ res.logits_mask[p][q] = 1

\* witness of C26: a SimCLR step on a batch of three samples; the second view
\* of the second sample has the first view of the second sample as positive
C26_Witness ==
    /\ pt.method = "SimCLR" /\ criterion.contrast_mode = "all" /\ Returned
    /\ pt.status = "stepped" /\ Len(pt.step.labels) = 3
    /\ Row2(res.contrast_feature, 4) = Embed(pt.step.views[2][2])
    /\ Row2(res.contrast_feature, 1) = Embed(pt.step.views[1][2])
    /\ res.mask[5] = <<0, 1, 0, 0, 0, 0>>
    /\ res.logits_mask[5] = <<1, 1, 1, 1, 0, 1>>

\* C27: in both contrast modes and for every base mask, an entry 1 of the
\* final mask is an entry 1 of logits_mask, and the column that logits_mask
\* zeroes in row p is the self column p, where the final mask is 0 as well;
\* in a call that returns a loss every row has this zero.
C27_MaskWithinLogitsMask ==
    (res.outcome # "none" /\ res.logits_mask # <<>>) =>
        /\ Len(res.mask) = Len(res.logits_mask)
        /\ \A p \in 1..Len(res.mask) :
              /\ Len(res.mask[p]) = Len(res.logits_mask[p])
              /\ \A q \in 1..Len(res.mask[p]) :
                    /\ res.mask[p][q] = 1 => res.logits_mask[p][q] = 1
                    /\ res.logits_mask[p][q] = 0 => (q = p /\ res.mask[p][q] = 0)
              /\ Returned =>
                    /\ p <= Len(res.mask[p])
                    /\ res.logits_mask[p][p] = 0
                    /\ res.mask[p][p] = 0

\* witness of C27: contrast_mode 'one' with an explicit base mask of ones on
\* two samples with two views: the tiled mask has a 1 at every self column
\* and the final mask has none
C27_Witness ==
    /\ Returned /\ criterion.contrast_mode = "one" /\ N = 2 /\ V = 2
    /\ call.mask.given /\ call.mask.val = <<<<1, 1>>, <<1, 1>>>>
    /\ res.mask = <<<<0, 1, 1, 1>>, <<1, 0, 1, 1>>>>
    /\ res.logits_mask = <<<<0, 1, 1, 1>>, <<1, 0, 1, 1>>>>

\* the loss of the best score recorded before the latest call
BestRecordedLoss == -early_stopping.before.best_score.val

Deterministic(transform) ==
    \A x \in Images : \A d1 \in DrawsOf(transform) : \A d2 \in DrawsOf(transform) :
        Transform(transform, x, d1) = Transform(transform, x, d2)

\* C15: a call of TwoCropTransform invokes the augmentation twice, each time
\* on the image x it was given, left as it was, and returns the two results
\* in the order of the invocations; a deterministic augmentation gives two
\* identical views.
C15_TwoViewsOfSameImage ==
    (two_crop.exists /\ two_crop.called) =>
        /\ two_crop.invoked = <<two_crop.before.x, two_crop.before.x>>
        /\ two_crop.x = two_crop.before.x
        /\ Len(two_crop.out) = 2
        /\ \A k \in 1..2 :
              two_crop.out[k] = Transform(two_crop.self.transform,
                                          two_crop.before.x, two_crop.draws[k])
        /\ Deterministic(two_crop.self.transform) => two_crop.out[1] = two_crop.out[2]

\* witness of C15: the two invocations of the contrastive augmentation drew
\* differently and the two views differ
C15_Witness ==
    /\ two_crop.exists /\ two_crop.called /\ two_crop.calls = 2
    /\ two_crop.self.transform = "contrastive_transform"
    /\ two_crop.draws[1].flip /\ ~two_crop.draws[2].flip
    /\ two_crop.out[1] # two_crop.out[2]
    /\ two_crop.out[1] = Transform("contrastive_transform", two_crop.x,
                                   two_crop.draws[1])

C21_FractionOfRightPredictions ==
    accuracy.called =>
        accuracy.result =
            [num |-> Cardinality({i \in 1..Len(accuracy.output) :
                                     ArgMax(accuracy.output[i]) = accuracy.target[i]}),
             den |-> Len(accuracy.output)]

\* the values of the updates of the log made with a name, in order
ValuesOf(log, name) ==
    LET ups == SelectSeq(log, LAMBDA u : u.name = name)
    IN  [k \in 1..Len(ups) |-> ups[k].val]

\* C24: for every metric name updated since the last reset, count is the
\* number of its updates, val the sum of their values and avg is val / count;
\* a name not updated since the reset has no entry.
C24_RunningAverage ==
    metric_monitor.exists =>
        \A name \in MetricNames :
            LET vals   == ValuesOf(metric_monitor.log, name)
                metric == metric_monitor.self.metrics[name]
            IN  IF vals = <<>> THEN ~metric.present
                ELSE /\ metric.present
                     /\ metric.count = Len(vals)
                     /\ metric.val = SumSeq(vals)
                     /\ metric.avg.den # 0
                     /\ metric.avg.num * metric.count = metric.val * metric.avg.den

\* witness of C24: after a reset, two losses of sum 3 and one accuracy
C24_Witness ==
    /\ metric_monitor.exists /\ metric_monitor.updates = 4
    /\ Len(metric_monitor.log) = 3
    /\ ValuesOf(metric_monitor.log, "Loss") = <<1, 2>>
    /\ metric_monitor.self.metrics["Loss"].avg = Fraction(3, 2)
    /\ metric_monitor.self.metrics["Accuracy"].count = 1

\* the latest optimizer.step() was executed by training()
TrainingStepped == main.exists /\ main.last = "training"

\* C22 (as claimed): every optimizer.step() executed by training() updates
\* the parameters of the LinearClassifier, which belong to the optimizer that
\* training() steps.
C22_ClassifierStepped ==
    TrainingStepped =>
        /\ main.classifier \in main.optimizer.params
        /\ main.classifier \in main.stepped
        /\ main.params[main.classifier].writes
              > main.loaded[main.classifier].writes

\* C23 (as claimed): in Part 2 the parameters of the model's encoder and
\* projection head are not among the parameters of the optimizer that
\* training() steps, and no step of training() writes them.
C23_EncoderAndHeadFrozen ==
    TrainingStepped =>
        \A p \in Parameters(main.model) :
            /\ p \notin main.optimizer.params
            /\ p \notin main.stepped
            /\ main.params[p].writes = main.loaded[p].writes

====
